---- MODULE Spec2Model ----
(***************************************************************************)
(* A model of docs/jarvis-python-server.py: the FastAPI backend with its   *)
(* request/response endpoints (/vision, /actions, /planner, /agent,        *)
(* /agent/chat), the ConnectionManager registry and the /ws handler.       *)
(*                                                                         *)
(* The server runs on one asyncio event loop: code between two awaits is   *)
(* atomic, and other tasks run only while a task is suspended at an await. *)
(* Every action below is one such atomic stretch of code.                  *)
(*                                                                         *)
(* Four specifications share the definitions:                              *)
(*   SpecRegistry  the ConnectionManager called by concurrent tasks        *)
(*   SpecWs        the /ws handlers, one per incoming websocket            *)
(*   SpecAgent     /agent requests served while websockets come and go     *)
(*   SpecHttp      the request/response endpoints as functions of the      *)
(*                 request                                                 *)
(***************************************************************************)
EXTENDS Integers, Sequences, FiniteSets, TLC

(* ------------------------------ bounds --------------------------------- *)

\* number of websockets the framework hands to the server
NumConns == 2

\* number of manager.broadcast calls issued
MaxBroadcasts == 2

\* number of websockets whose /ws handler is followed step by step
NumHandlers == 1

\* number of inbound texts one /ws handler receives
MaxMsgs == 2

\* number of HTTP requests served in one behaviour
MaxRequests == 2

(* --------------------------- python values ----------------------------- *)

\* Python's None (also JSON null), as the text str() gives it
None == "None"

Connections == 1 .. NumConns

Handlers == 1 .. NumHandlers

\* the value of a variable that holds no websocket
NoConn == NumConns + 1

Range(s) == {s[i] : i \in 1 .. Len(s)}

\* x in list
Contains(list, x) == \E i \in 1 .. Len(list) : list[i] = x

\* list.index(x) for x in list, 1-based
IndexOf(list, x) == CHOOSE i \in 1 .. Len(list) : list[i] = x /\ \A j \in 1 .. i - 1 : list[j] # x

\* dict.get(key, default)
Get(dict, key, default) == IF key \in DOMAIN dict THEN dict[key] ELSE default

VARIABLES
    active_connections,  \* ConnectionManager.active_connections, a list
    accepted,            \* websockets on which accept() has been awaited
    gone,                \* websockets whose peer has vanished
    bcast,               \* the running manager.broadcast: its for-loop position
    attempts,            \* every connection.send_json call made by broadcast
    lastCall,            \* the last ConnectionManager call: what it found, changed and raised
    pc,                  \* per websocket: where its websocket_endpoint handler stands
    exc,                 \* per websocket: the exception that left the handler, or None
    received,            \* per websocket: the texts receive_text returned
    sentCalls,           \* per websocket: the responses passed to websocket.send_json
    outbox,              \* per websocket: the messages that reached the peer
    session,             \* the last /agent request served, with what it caused
    httpLog              \* the request/response exchanges of the other endpoints

wsVars == <<pc, exc, received, sentCalls>>
vars == <<active_connections, accepted, gone, bcast, attempts, lastCall,
          pc, exc, received, sentCalls, outbox, session, httpLog>>

(* ------------------------- ConnectionManager --------------------------- *)

\* list.remove(x): drops the first occurrence
RemoveFirst(list, x) ==
    LET i == IndexOf(list, x)
    IN  SubSeq(list, 1, i - 1) \o SubSeq(list, i + 1, Len(list))

\* ConnectionManager.connect after accept() returned: active_connections.append
connect(list, websocket) == Append(list, websocket)

\* ConnectionManager.disconnect: active_connections.remove(websocket);
\* list.remove raises ValueError when the element is absent
disconnect(list, websocket) ==
    IF Contains(list, websocket)
    THEN [list |-> RemoveFirst(list, websocket), raised |-> None]
    ELSE [list |-> list, raised |-> "ValueError"]

\* the messages broadcast is called with: ProgressEvent dicts
ProgressEvent(event_type, step) == [event_type |-> event_type, step |-> step]

Events == {ProgressEvent("plan_ready", 0), ProgressEvent("session_completed", 0)}

NoCall == [op |-> None, conn |-> NoConn, present |-> FALSE, changed |-> FALSE, raised |-> None]

IdleBroadcast ==
    [pc |-> "idle", n |-> 0, idx |-> 0, cur |-> NoConn, msg |-> None, snapshot |-> {}]

\* one step of `for connection in self.active_connections`: the list iterator
\* keeps an index into the live list and stops when the index reaches its length
IterNext(list, idx) ==
    IF idx < Len(list)
    THEN [stop |-> FALSE, value |-> list[idx + 1], idx |-> idx + 1]
    ELSE [stop |-> TRUE, value |-> NoConn, idx |-> idx]

\* the loop of broadcast from its iterator position up to the next await of
\* send_json (pc "sending") or to the end of the loop (pc "done")
BroadcastAdvance(b, list) ==
    LET it == IterNext(list, b.idx)
    IN  IF it.stop
        THEN [b EXCEPT !.pc = "done", !.cur = NoConn]
        ELSE [b EXCEPT !.pc = "sending", !.cur = it.value, !.idx = it.idx]

\* the send_json call broadcast b has just made, if it made one
LogAttempt(log, b) ==
    IF b.pc = "sending"
    THEN Append(log, [b |-> b.n, conn |-> b.cur, outcome |-> "pending"])
    ELSE log

\* the pending send_json call has ended with outcome
LogOutcome(log, outcome) == [log EXCEPT ![Len(log)].outcome = outcome]

\* a task calls manager.connect(websocket): accept() is awaited, then the
\* websocket is appended; a failed handshake raises out of connect
Connect(websocket) ==
    /\ websocket \notin accepted
    /\ accepted' = accepted \cup {websocket}
    /\ \E handshake \in BOOLEAN :
         IF handshake
         THEN /\ active_connections' = connect(active_connections, websocket)
              /\ lastCall' = [op |-> "connect", conn |-> websocket, present |-> FALSE,
                              changed |-> TRUE, raised |-> None]
         ELSE /\ active_connections' = active_connections
              /\ lastCall' = [op |-> "connect", conn |-> websocket, present |-> FALSE,
                              changed |-> FALSE, raised |-> "HandshakeError"]
    /\ UNCHANGED <<gone, bcast, attempts, outbox, session, httpLog>>
    /\ UNCHANGED wsVars

\* a task calls manager.disconnect(websocket)
Disconnect(websocket) ==
    LET r == disconnect(active_connections, websocket)
    IN  /\ active_connections' = r.list
        /\ lastCall' = [op |-> "disconnect", conn |-> websocket,
                        present |-> Contains(active_connections, websocket),
                        changed |-> Range(r.list) # Range(active_connections),
                        raised |-> r.raised]
        /\ UNCHANGED <<accepted, gone, bcast, attempts, outbox, session, httpLog>>
        /\ UNCHANGED wsVars

\* the peer of an accepted websocket goes away
PeerVanish(websocket) ==
    /\ websocket \in accepted
    /\ websocket \notin gone
    /\ pc[websocket] \notin {"returned", "raised"}
    /\ gone' = gone \cup {websocket}
    /\ UNCHANGED <<active_connections, accepted, bcast, attempts, lastCall,
                   outbox, session, httpLog>>
    /\ UNCHANGED wsVars

\* a task calls manager.broadcast(message) and runs to its first await
BroadcastCall(message) ==
    /\ bcast.pc \in {"idle", "done", "raised"}
    /\ bcast.n < MaxBroadcasts
    /\ LET b0 == [pc |-> "iter", n |-> bcast.n + 1, idx |-> 0, cur |-> NoConn,
                  msg |-> message, snapshot |-> Range(active_connections)]
           b1 == BroadcastAdvance(b0, active_connections)
       IN  /\ bcast' = b1
           /\ attempts' = LogAttempt(attempts, b1)
    /\ UNCHANGED <<active_connections, accepted, gone, lastCall, outbox, session, httpLog>>
    /\ UNCHANGED wsVars

\* `await connection.send_json(message)` ends: it raises when the peer is gone,
\* and the exception leaves broadcast; otherwise the loop goes on
BroadcastResume ==
    /\ bcast.pc = "sending"
    /\ IF bcast.cur \in gone
       THEN /\ bcast' = [bcast EXCEPT !.pc = "raised"]
            /\ attempts' = LogOutcome(attempts, "failed")
            /\ outbox' = outbox
       ELSE LET b1 == BroadcastAdvance(bcast, active_connections)
            IN  /\ bcast' = b1
                /\ attempts' = LogAttempt(LogOutcome(attempts, "sent"), b1)
                /\ outbox' = [outbox EXCEPT ![bcast.cur] = Append(@, bcast.msg)]
    /\ UNCHANGED <<active_connections, accepted, gone, lastCall, session, httpLog>>
    /\ UNCHANGED wsVars

NoSession == [served |-> FALSE]

Init ==
    /\ active_connections = <<>>
    /\ accepted = {}
    /\ gone = {}
    /\ bcast = IdleBroadcast
    /\ attempts = <<>>
    /\ lastCall = NoCall
    /\ pc = [c \in Connections |-> "new"]
    /\ exc = [c \in Connections |-> None]
    /\ received = [c \in Connections |-> <<>>]
    /\ sentCalls = [c \in Connections |-> <<>>]
    /\ outbox = [c \in Connections |-> <<>>]
    /\ session = NoSession
    /\ httpLog = <<>>

RegistryNext ==
    \/ \E c \in Connections : Connect(c)
    \/ \E c \in Connections : Disconnect(c)
    \/ \E c \in Connections : PeerVanish(c)
    \/ \E m \in Events : BroadcastCall(m)
    \/ BroadcastResume

SpecRegistry == Init /\ [][RegistryNext]_vars

(* ------------------------- the /ws handler ----------------------------- *)

\* readings of datetime.now().isoformat()
Timestamps == {"2026-01-01T00:00:00", "2026-01-01T00:00:01"}

\* the texts a peer sends, each with what json.loads makes of it: a JSON object
\* (a dict), another JSON value, or no JSON at all
InboundTexts ==
    { [valid |-> TRUE, kind |-> "object",
       fields |-> [module |-> "vision", id |-> "a1", payload |-> "p"]],
      [valid |-> TRUE, kind |-> "object", fields |-> [payload |-> "p"]],
      [valid |-> TRUE, kind |-> "array", fields |-> <<>>],
      [valid |-> FALSE, kind |-> None, fields |-> <<>>] }

\* json.loads(data): the parsed value, or JSONDecodeError
json_loads(data) ==
    IF data.valid
    THEN [raised |-> None, kind |-> data.kind, value |-> data.fields]
    ELSE [raised |-> "JSONDecodeError", kind |-> None, value |-> <<>>]

\* BuildResponse with the id left out of the echo
BuildResponseNoEcho(message, now) ==
    [type |-> "response",
     module |-> Get(message, "module", "system"),
     payload |-> [status |-> "received", original |-> message],
     timestamp |-> now,
     id |-> None]

\* the response dict built from the parsed message
BuildResponse(message, now) ==
    [type |-> "response",
     module |-> Get(message, "module", "system"),
     payload |-> [status |-> "received", original |-> message],
     timestamp |-> now,
     id |-> Get(message, "id", None)]

\* the exceptions a send on a vanished peer raises, by version of the framework
SendFailures == {"WebSocketDisconnect", "RuntimeError"}

\* how an exception raised inside the try block leaves the handler: only
\* WebSocketDisconnect is caught, and its handler calls manager.disconnect
HandlerExit(websocket, error) ==
    IF error = "WebSocketDisconnect"
    THEN LET r == disconnect(active_connections, websocket)
         IN  /\ active_connections' = r.list
             /\ pc' = [pc EXCEPT ![websocket] = IF r.raised = None THEN "returned" ELSE "raised"]
             /\ exc' = [exc EXCEPT ![websocket] = r.raised]
    ELSE /\ active_connections' = active_connections
         /\ pc' = [pc EXCEPT ![websocket] = "raised"]
         /\ exc' = [exc EXCEPT ![websocket] = error]

\* the framework starts websocket_endpoint: manager.connect runs before the try
WsAccept(websocket) ==
    /\ pc[websocket] = "new"
    /\ accepted' = accepted \cup {websocket}
    /\ \E handshake \in BOOLEAN :
         IF handshake
         THEN /\ active_connections' = connect(active_connections, websocket)
              /\ pc' = [pc EXCEPT ![websocket] = "receive"]
              /\ exc' = exc
         ELSE /\ active_connections' = active_connections
              /\ pc' = [pc EXCEPT ![websocket] = "raised"]
              /\ exc' = [exc EXCEPT ![websocket] = "HandshakeError"]
    /\ UNCHANGED <<gone, bcast, attempts, lastCall, received, sentCalls, outbox,
                   session, httpLog>>

\* receive_text returns a text: it is parsed, the response is built and passed
\* to send_json, whose await suspends the handler
WsReceive(websocket, data) ==
    /\ pc[websocket] = "receive"
    /\ websocket \notin gone
    /\ Len(received[websocket]) < MaxMsgs
    /\ received' = [received EXCEPT ![websocket] = Append(@, data)]
    /\ LET parsed == json_loads(data)
       IN  IF parsed.raised # None
           THEN /\ HandlerExit(websocket, parsed.raised)
                /\ sentCalls' = sentCalls
           ELSE IF parsed.kind # "object"
           THEN /\ HandlerExit(websocket, "AttributeError")
                /\ sentCalls' = sentCalls
           ELSE \E now \in Timestamps :
                  /\ sentCalls' = [sentCalls EXCEPT ![websocket] =
                                     Append(@, BuildResponse(parsed.value, now))]
                  /\ pc' = [pc EXCEPT ![websocket] = "send"]
                  /\ UNCHANGED <<active_connections, exc>>
    /\ UNCHANGED <<accepted, gone, bcast, attempts, lastCall, outbox, session, httpLog>>

\* receive_text raises WebSocketDisconnect: the peer closed the connection
WsReceiveDisconnect(websocket) ==
    /\ pc[websocket] = "receive"
    /\ websocket \in gone
    /\ HandlerExit(websocket, "WebSocketDisconnect")
    /\ UNCHANGED <<accepted, gone, bcast, attempts, lastCall, received, sentCalls,
                   outbox, session, httpLog>>

\* `await websocket.send_json(response)` ends: the response reaches the peer
\* and the loop awaits the next text, or the send raises
WsSendReturn(websocket) ==
    /\ pc[websocket] = "send"
    /\ IF websocket \in gone
       THEN /\ \E error \in SendFailures : HandlerExit(websocket, error)
            /\ outbox' = outbox
       ELSE /\ outbox' = [outbox EXCEPT ![websocket] =
                            Append(@, sentCalls[websocket][Len(sentCalls[websocket])])]
            /\ pc' = [pc EXCEPT ![websocket] = "receive"]
            /\ UNCHANGED <<active_connections, exc>>
    /\ UNCHANGED <<accepted, gone, bcast, attempts, lastCall, received, sentCalls,
                   session, httpLog>>

WsNext ==
    \/ \E c \in Handlers : WsAccept(c)
    \/ \E c \in Handlers : \E data \in InboundTexts : WsReceive(c, data)
    \/ \E c \in Handlers : WsReceiveDisconnect(c)
    \/ \E c \in Handlers : WsSendReturn(c)
    \/ \E c \in Handlers : PeerVanish(c)

SpecWs == Init /\ [][WsNext]_vars

(* ----------------------- request/response endpoints -------------------- *)

\* an Optional[Dict]: None, or a dict
NoDict == [some |-> FALSE, dict |-> <<>>]

SomeDict(d) == [some |-> TRUE, dict |-> d]

EmptyDict == <<>>

\* truth value of an Optional[Dict]: None and {} are falsy
Truthy(opt) == opt.some /\ DOMAIN opt.dict # {}

VisionVocabulary == {"capture_screen", "analyze_image", "find_element", "ocr"}

ActionVocabulary == {"click", "type", "scroll", "hotkey", "move_mouse", "drag"}

ActionNames == VisionVocabulary \cup ActionVocabulary \cup {"teleport", ""}

\* request data; values are kept as the text str() gives them
ActionData == {EmptyDict, [x |-> "100", y |-> "200", text |-> "hi", direction |-> "up"]}

VisionRequests == [action : ActionNames, data : {NoDict}]

ActionRequests == [action : ActionNames, data : ActionData]

Goals == {"", "open notepad"}

PlannerRequests == [goal : Goals, context : {NoDict, SomeDict(EmptyDict)}]

Modes == {"auto", "confirm", "plan_only"}

AgentRequests == [command : Goals, mode : Modes, context : {NoDict}]

ChatRequests ==
    [command : Goals, mode : {"auto"},
     context : {NoDict, SomeDict(EmptyDict), SomeDict([conversation_history |-> <<"hello">>])}]

\* The bodies of the five POST handlers are wrapped in try/except Exception; with
\* requests that passed the pydantic models (action a str, data a dict) nothing
\* in a body raises, so each handler is the function of its request given here.

\* POST /vision
vision_endpoint(request) ==
    IF request.action = "capture_screen"
    THEN [success |-> TRUE,
          data |-> [image_base64 |-> "BASE64_DA_IMAGEM_AQUI", width |-> 1920, height |-> 1080]]
    ELSE IF request.action = "analyze_image"
    THEN [success |-> TRUE, data |-> [analysis |-> "Descrição da análise da imagem"]]
    ELSE IF request.action = "find_element"
    THEN [success |-> TRUE,
          data |-> [elements |->
                      <<[label |-> "botão",
                         bbox |-> [x |-> 100, y |-> 200, width |-> 80, height |-> 30],
                         confidence |-> "0.95"]>>]]
    ELSE IF request.action = "ocr"
    THEN [success |-> TRUE, data |-> [text |-> "Texto extraído da tela"]]
    ELSE [success |-> FALSE, error |-> "Ação desconhecida: " \o request.action]

\* actions_endpoint with the "drag" branch lost: drag falls through to the end
actions_endpoint_without_drag(request) ==
    LET data == request.data
    IN  IF request.action = "click"
        THEN [success |-> TRUE,
              message |-> "Clique em (" \o Get(data, "x", None) \o ", "
                            \o Get(data, "y", None) \o ")"]
        ELSE IF request.action = "type"
        THEN [success |-> TRUE, message |-> "Digitado: " \o Get(data, "text", None)]
        ELSE IF request.action = "scroll"
        THEN [success |-> TRUE, message |-> "Scroll " \o Get(data, "direction", None)]
        ELSE IF request.action = "hotkey"
        THEN [success |-> TRUE, message |-> "Atalho: " \o Get(data, "keys", None)]
        ELSE IF request.action = "move_mouse"
        THEN [success |-> TRUE,
              message |-> "Mouse movido para (" \o Get(data, "x", None) \o ", "
                            \o Get(data, "y", None) \o ")"]
        ELSE [success |-> FALSE, error |-> "Ação desconhecida: " \o request.action]

\* POST /actions
actions_endpoint(request) ==
    LET data == request.data
    IN  IF request.action = "click"
        THEN [success |-> TRUE,
              message |-> "Clique em (" \o Get(data, "x", None) \o ", "
                            \o Get(data, "y", None) \o ")"]
        ELSE IF request.action = "type"
        THEN [success |-> TRUE, message |-> "Digitado: " \o Get(data, "text", None)]
        ELSE IF request.action = "scroll"
        THEN [success |-> TRUE, message |-> "Scroll " \o Get(data, "direction", None)]
        ELSE IF request.action = "hotkey"
        THEN [success |-> TRUE, message |-> "Atalho: " \o Get(data, "keys", None)]
        ELSE IF request.action = "move_mouse"
        THEN [success |-> TRUE,
              message |-> "Mouse movido para (" \o Get(data, "x", None) \o ", "
                            \o Get(data, "y", None) \o ")"]
        ELSE IF request.action = "drag"
        THEN [success |-> TRUE, message |-> "Drag executado"]
        ELSE [success |-> FALSE, error |-> "Ação desconhecida: " \o request.action]

\* POST /planner
planner_endpoint(request) ==
    [success |-> TRUE,
     plan |-> [steps |->
                 <<[id |-> 1, action |-> "capture_screen", description |-> "Capturar tela atual"],
                   [id |-> 2, action |-> "find_element", description |-> "Encontrar elemento alvo"],
                   [id |-> 3, action |-> "click", description |-> "Clicar no elemento"]>>,
               reasoning |-> "Plano gerado para: " \o request.goal]]

\* POST /agent
agent_endpoint(request) ==
    [success |-> TRUE,
     response |-> "Processando comando: " \o request.command,
     actions_taken |-> <<>>,
     plan |-> None]

\* POST /agent/chat
agent_chat_endpoint(request) ==
    LET history == IF Truthy(request.context)
                   THEN Get(request.context.dict, "conversation_history", <<>>)
                   ELSE <<>>
    IN  [success |-> TRUE, response |-> "Olá! Você disse: " \o request.command]

\* one request/response exchange, as the framework sees it
Exchange(endpoint, request, response) ==
    [endpoint |-> endpoint, request |-> request, response |-> response]

httpOthers == <<active_connections, accepted, gone, bcast, attempts, lastCall,
                pc, exc, received, sentCalls, outbox, session>>

\* the framework serves one POST /vision request
VisionCall(request) ==
    /\ Len(httpLog) < MaxRequests
    /\ httpLog' = Append(httpLog, Exchange("/vision", request, vision_endpoint(request)))
    /\ UNCHANGED httpOthers

\* the framework serves one POST /actions request
ActionsCall(request) ==
    /\ Len(httpLog) < MaxRequests
    /\ httpLog' = Append(httpLog, Exchange("/actions", request, actions_endpoint(request)))
    /\ UNCHANGED httpOthers

\* the framework serves one POST /planner request
PlannerCall(request) ==
    /\ Len(httpLog) < MaxRequests
    /\ httpLog' = Append(httpLog, Exchange("/planner", request, planner_endpoint(request)))
    /\ UNCHANGED httpOthers

\* the framework serves one POST /agent/chat request
AgentChatCall(request) ==
    /\ Len(httpLog) < MaxRequests
    /\ httpLog' = Append(httpLog, Exchange("/agent/chat", request, agent_chat_endpoint(request)))
    /\ UNCHANGED httpOthers

HttpNext ==
    \/ \E r \in VisionRequests : VisionCall(r)
    \/ \E r \in ActionRequests : ActionsCall(r)
    \/ \E r \in PlannerRequests : PlannerCall(r)
    \/ \E r \in ChatRequests : AgentChatCall(r)

SpecHttp == Init /\ [][HttpNext]_vars

(* ------------------- /agent beside the live connections ---------------- *)

\* the messages that reached websocket between two states of outbox
Since(before, after, websocket) ==
    SubSeq(after[websocket], Len(before[websocket]) + 1, Len(after[websocket]))

\* the framework serves one /agent request; the handler has no await, so it runs
\* from the request to the response in one step
AgentCall(request) ==
    /\ outbox' = outbox
    /\ session' = [served |-> TRUE,
                   request |-> request,
                   response |-> agent_endpoint(request),
                   observers |-> Range(active_connections),
                   observed |-> [c \in Connections |-> Since(outbox, outbox', c)]]
    /\ UNCHANGED <<active_connections, accepted, gone, bcast, attempts, lastCall, httpLog>>
    /\ UNCHANGED wsVars

AgentNext ==
    \/ \E c \in Connections : WsAccept(c)
    \/ \E c \in Connections : PeerVanish(c)
    \/ \E c \in Connections : WsReceiveDisconnect(c)
    \/ \E r \in AgentRequests : AgentCall(r)

SpecAgent == Init /\ [][AgentNext]_vars

(* ------------------------------ properties ----------------------------- *)

\* how many send_json calls of broadcast number b went to websocket
TimesAttempted(b, websocket) ==
    Cardinality({i \in 1 .. Len(attempts) :
                   attempts[i].b = b /\ attempts[i].conn = websocket})

\* C1: unregistering a connection that is not registered (a second unregister
\* right after a first one included) raises no error and leaves the registry
\* membership as it was.
C1_UnregisterIdempotent ==
    (lastCall.op = "disconnect" /\ ~lastCall.present)
        => (lastCall.raised = None /\ ~lastCall.changed)

\* C2: when the send to one registered connection fails during a broadcast, the
\* broadcast itself does not fail, the failing connection is removed from the
\* registry and is not a target of any later send, and once the broadcast is
\* over every other connection registered throughout it has been sent the event.
C2_FailedSendIsolated ==
    \A i \in 1 .. Len(attempts) :
        attempts[i].outcome = "failed" =>
            /\ ~(bcast.n = attempts[i].b /\ bcast.pc = "raised")
            /\ ~Contains(active_connections, attempts[i].conn)
            /\ \A j \in i + 1 .. Len(attempts) : attempts[j].conn # attempts[i].conn
            /\ (bcast.n = attempts[i].b /\ bcast.pc \in {"done", "raised"}) =>
                 \A c \in (bcast.snapshot \cap Range(active_connections)) \ {attempts[i].conn} :
                     TimesAttempted(bcast.n, c) = 1

\* C3: once the /ws handler of a connection has ended, by whatever exit path,
\* the connection is no longer in active_connections.
C3_NoEntryOutlivesHandler ==
    \A c \in Handlers :
        pc[c] \in {"returned", "raised"} => ~Contains(active_connections, c)

\* C4: a broadcast that runs to its end while register and unregister calls
\* interleave at its awaits has sent the event exactly once to every connection
\* that was registered when it began and stayed registered, has sent it to no
\* connection twice, and the registry holds no connection twice.
C4_BroadcastReachesEachOnce ==
    bcast.pc = "done" =>
        /\ \A c \in bcast.snapshot \cap Range(active_connections) :
               TimesAttempted(bcast.n, c) = 1
        /\ \A c \in Connections : TimesAttempted(bcast.n, c) <= 1
        /\ Cardinality(Range(active_connections)) = Len(active_connections)

\* the exchanges of the module endpoints in httpLog
ModuleExchanges ==
    {i \in 1 .. Len(httpLog) : httpLog[i].endpoint \in {"/vision", "/actions"}}

Vocabulary(endpoint) ==
    IF endpoint = "/vision" THEN VisionVocabulary ELSE ActionVocabulary

\* what /vision and /actions answer, with the given text before the name of
\* an action outside the vocabulary
ModuleAnswers(prefix) ==
    \A i \in ModuleExchanges :
        LET e == httpLog[i]
        IN  IF e.request.action \in Vocabulary(e.endpoint)
            THEN e.response.success = TRUE
            ELSE /\ e.response.success = FALSE
                 /\ e.response.error = prefix \o e.request.action

\* C5 as stated: /vision and /actions answer an action name outside the module's
\* vocabulary with success=false and the error "UnknownAction: <name>", and an
\* action name inside it with success=true.
C5_UnknownActionError == ModuleAnswers("UnknownAction: ")

\* C5 amended: /vision and /actions answer an action name outside the module's
\* vocabulary with success=false and the error "Ação desconhecida: <name>", and
\* an action name inside it with success=true; a response is returned either way.
C5_UnknownActionRejected == ModuleAnswers("Ação desconhecida: ")

\* /actions has rejected "teleport" and /vision has served "ocr"
C5_Witness ==
    /\ \E i \in ModuleExchanges :
         /\ httpLog[i].endpoint = "/actions"
         /\ httpLog[i].request.action = "teleport"
         /\ httpLog[i].response.success = FALSE
         /\ httpLog[i].response.error = "Ação desconhecida: teleport"
    /\ \E i \in ModuleExchanges :
         /\ httpLog[i].endpoint = "/vision"
         /\ httpLog[i].request.action = "ocr"
         /\ httpLog[i].response.success = TRUE

\* the exceptions raised while a handler processes a received text
ProcessingErrors == {"JSONDecodeError", "AttributeError"}

\* C6: no failure raised while a boundary operation processes a request leaves
\* it as an uncaught exception: every HTTP exchange ends in a structured result
\* with a success field, no /ws handler is left by an exception raised while it
\* processes an inbound text, and every text a waiting handler has received
\* has been answered.
C6_FailuresBecomeResults ==
    /\ \A i \in 1 .. Len(httpLog) : "success" \in DOMAIN httpLog[i].response
    /\ \A c \in Handlers :
         /\ exc[c] \notin ProcessingErrors
         /\ pc[c] = "receive" => Len(outbox[c]) = Len(received[c])

\* the inbound texts of the shape {module, id, payload}: JSON objects
IsObject(data) == data.valid /\ data.kind = "object"

IsPrefix(s, t) == Len(s) <= Len(t) /\ \A i \in 1 .. Len(s) : s[i] = t[i]

\* C7: on each connection, the k-th inbound JSON object is answered by the k-th
\* send_json call, and by no other: the response has the fields type, module,
\* payload, timestamp and id, its id is the id of that inbound message (None
\* when it has none), its module is that message's module (or "system"), and
\* the responses reach the peer in the order of the calls, all of them once the
\* handler waits for the next text.
C7_OneResponsePerMessageInOrder ==
    \A c \in Handlers :
        LET inbound == SelectSeq(received[c], IsObject)
        IN  /\ Len(sentCalls[c]) = Len(inbound)
            /\ \A k \in 1 .. Len(inbound) :
                 LET message == inbound[k].fields
                     out == sentCalls[c][k]
                 IN  /\ DOMAIN out = {"type", "module", "payload", "timestamp", "id"}
                     /\ out.type = "response"
                     /\ out.id = (IF "id" \in DOMAIN message THEN message.id ELSE None)
                     /\ out.module =
                          (IF "module" \in DOMAIN message THEN message.module ELSE "system")
                     /\ out.payload.original = message
            /\ IsPrefix(outbox[c], sentCalls[c])
            /\ Len(sentCalls[c]) - Len(outbox[c]) <= 1
            /\ pc[c] = "receive" => outbox[c] = sentCalls[c]

\* a peer has been answered twice: first a message with an id, then one without
C7_Witness ==
    \E c \in Handlers :
        /\ pc[c] = "receive"
        /\ Len(outbox[c]) = 2
        /\ outbox[c][1].id = "a1"
        /\ outbox[c][2].id = None

\* the steps of the Plan an /agent response carries
PlanSteps(response) == IF response.plan = None THEN <<>> ELSE response.plan.steps

\* plan_ready, step_started(1), step_finished(1), ..., step_started(n),
\* step_finished(n), then the terminal event
ExpectedEvents(n, terminal) ==
    <<ProgressEvent("plan_ready", 0)>>
    \o [i \in 1 .. 2 * n |->
          IF i % 2 = 1
          THEN ProgressEvent("step_started", (i + 1) \div 2)
          ELSE ProgressEvent("step_finished", i \div 2)]
    \o <<ProgressEvent(terminal, 0)>>

\* C9: the events of an /agent Session that a connection registered for the
\* whole Session observes are plan_ready, then step_started and step_finished
\* for each step of the Plan in order, then session_completed or session_failed.
C9_SessionEventsInOrder ==
    session.served =>
        \A c \in session.observers :
            \E terminal \in {"session_completed", "session_failed"} :
                session.observed[c]
                    = ExpectedEvents(Len(PlanSteps(session.response)), terminal)

\* C10: an /agent request with mode=plan_only takes no action, emits plan_ready
\* and then the completion event to the registered connections, and returns
\* success with the generated Plan as its result.
C10_PlanOnlyReturnsPlan ==
    (session.served /\ session.request.mode = "plan_only") =>
        /\ session.response.actions_taken = <<>>
        /\ \A c \in session.observers :
               session.observed[c] = ExpectedEvents(0, "session_completed")
        /\ session.response.success = TRUE
        /\ session.response.plan # None
====
